---- MODULE Spec2Model ----
(***************************************************************************)
(* Model of search/program.py: the red frog's move generator               *)
(* (get_red_frog_moves) and the A* path search (search) that uses it.      *)
(*                                                                         *)
(* A coordinate is a pair <<r, c>>.  A board is a function whose domain is *)
(* the set of coordinates that have a cell state (the Python dict is       *)
(* sparse).  A move is a sequence of direction names; a MoveAction is a    *)
(* record [coord, directions].                                             *)
(***************************************************************************)
EXTENDS Integers, Sequences, FiniteSets, TLC

VARIABLES
    board,           \* the dict passed to search (never written)
    pc,              \* "Initialized" | "Expanding" | "Succeeded" | "Exhausted" | "Failed"
    start_coord,     \* <<r, c>> of the red frog, or NoCoord (Python None)
    target_pads,     \* the row-7 lily pads found by the scan
    open_created,    \* TRUE once open_list exists (line 88)
    open_list,       \* the heap's entries, records [f, g, coord, path]
    visited,         \* search's visited set
    pushes,          \* the coordinates pushed onto open_list so far, in order
    current_coord,   \* coordinate of the entry popped last, or NoCoord
    possible_moves,  \* the list the move generator returned to the last expansion
    gen_origin,      \* the frog_pos of the last call of get_red_frog_moves, or NoCoord
    plain_count,     \* how many entries of possible_moves the first loop appended
    dfs_calls,       \* the invocations of dfs in the last call, in the order they began
    dfs_visited,     \* dfs's visited set when the last call returned
    gen_calls,       \* number of calls of get_red_frog_moves so far
    returned,        \* "no" while running, then "None" or "path"
    result           \* the returned list of MoveActions when returned = "path"

vars == <<board, pc, start_coord, target_pads, open_created, open_list, visited,
          pushes, current_coord, possible_moves, gen_origin, plain_count, dfs_calls,
          dfs_visited, gen_calls, returned, result>>

----------------------------------------------------------------------------
(* Bounds of the checked instances *)

\* the boards checked have cells in the NumRows bottom rows only
NumRows == 3
\* at most this many cells besides the red frog have a state
MaxPieces == 4

(* Program constants *)

\* the bottom row, the goal row of the red frog
GoalRow == 7
\* the largest row and column index of the 8x8 board
LastIndex == 7

----------------------------------------------------------------------------
(* core: Coord, Direction, CellState, MoveAction.  program.py imports them *)
(* (line 1); they are modelled from their description: a Coord is a value  *)
(* pair, Coord + Direction is a translation without bounds check, and a    *)
(* missing dict key stands for a cell without state.                      *)

NoCoord == <<-1, -1>>

CellState == {"RED", "BLUE", "LILY_PAD"}

Direction == {"Up", "Down", "Left", "Right", "UpLeft", "UpRight", "DownLeft", "DownRight"}

\* row offset of a direction
DirR(d) ==
    CASE d \in {"Down", "DownLeft", "DownRight"} -> 1
      [] d \in {"Up", "UpLeft", "UpRight"} -> -1
      [] OTHER -> 0

\* column offset of a direction
DirC(d) ==
    CASE d \in {"Right", "UpRight", "DownRight"} -> 1
      [] d \in {"Left", "UpLeft", "DownLeft"} -> -1
      [] OTHER -> 0

\* Coord + Direction: plain translation, no bounds check
CoordAdd(pos, d) == <<pos[1] + DirR(d), pos[2] + DirC(d)>>

\* the ordering of Coord values inside heap tuples: by row, then column
CoordLess(a, b) == a[1] < b[1] \/ (a[1] = b[1] /\ a[2] < b[2])

MoveAction(coord, directions) == [coord |-> coord, directions |-> directions]

----------------------------------------------------------------------------
(* get_red_frog_moves *)

\* valid_coordinate with the upper bound exclusive
valid_coordinate_Exclusive(pos, dir) ==
    /\ 0 <= pos[1] + DirR(dir) /\ pos[1] + DirR(dir) < 7
    /\ 0 <= pos[2] + DirC(dir) /\ pos[2] + DirC(dir) < 7

valid_coordinate(pos, dir) ==
    /\ 0 <= pos[1] + DirR(dir) /\ pos[1] + DirR(dir) <= 7
    /\ 0 <= pos[2] + DirC(dir) /\ pos[2] + DirC(dir) <= 7

red_directions == <<"Down", "DownLeft", "DownRight", "Left", "Right">>

\* board[pos] == state, for a pos that may be missing from the dict
CellIs(b, pos, state) == pos \in DOMAIN b /\ b[pos] = state

\* the first loop without the test for a lily pad: any cell of the dict will do
RECURSIVE PlainMoves_AnyCell(_, _, _)
PlainMoves_AnyCell(b, frog_pos, i) ==
    IF i > Len(red_directions) THEN <<>>
    ELSE LET direction == red_directions[i]
             neighbor_pos == CoordAdd(frog_pos, direction)
             here == IF /\ valid_coordinate(frog_pos, direction)
                        /\ neighbor_pos \in DOMAIN b
                     THEN << <<direction>> >>
                     ELSE <<>>
         IN  here \o PlainMoves_AnyCell(b, frog_pos, i + 1)

\* the first loop: one single-direction move per adjacent lily pad
RECURSIVE PlainMoves(_, _, _)
PlainMoves(b, frog_pos, i) ==
    IF i > Len(red_directions) THEN <<>>
    ELSE LET direction == red_directions[i]
             neighbor_pos == CoordAdd(frog_pos, direction)
             here == IF /\ valid_coordinate(frog_pos, direction)
                        /\ CellIs(b, neighbor_pos, "LILY_PAD")
                     THEN << <<direction>> >>
                     ELSE <<>>
         IN  here \o PlainMoves(b, frog_pos, i + 1)

\* One invocation of dfs and, through DfsLoop, the invocations it makes.
\* The result is [calls, visited]: calls lists every invocation in the order
\* it was entered, as [pos, path, visited, depth]; visited is the shared
\* visited set as the invocation leaves it.
RECURSIVE dfs(_, _, _, _, _)
RECURSIVE DfsLoop(_, _, _, _, _, _)

dfs(b, current_pos, path, vis, depth) ==
    LET me == [pos |-> current_pos, path |-> path, visited |-> vis, depth |-> depth]
        rest == DfsLoop(b, current_pos, path, vis, depth, 1)
    IN  [calls |-> <<me>> \o rest.calls, visited |-> rest.visited]

\* the for loop of dfs without the test that the landing cell is a lily pad
DfsLoop_AnyLanding(b, current_pos, path, vis, depth, i) ==
    IF i > Len(red_directions) THEN [calls |-> <<>>, visited |-> vis]
    ELSE LET direction == red_directions[i]
             jump_over_pos == CoordAdd(current_pos, direction)
             landing_pos == CoordAdd(jump_over_pos, direction)
         IN  IF ~CellIs(b, jump_over_pos, "BLUE")
             THEN DfsLoop(b, current_pos, path, vis, depth, i + 1)
             ELSE IF /\ valid_coordinate(jump_over_pos, direction)
                     /\ landing_pos \in DOMAIN b
                     /\ landing_pos \notin vis
                  THEN LET new_path == Append(path, direction)
                           sub == dfs(b, landing_pos, new_path,
                                      vis \cup {landing_pos}, depth + 1)
                           after == sub.visited \ {landing_pos}
                           more == DfsLoop(b, current_pos, path, after, depth, i + 1)
                       IN  [calls |-> sub.calls \o more.calls, visited |-> more.visited]
                  ELSE DfsLoop(b, current_pos, path, vis, depth, i + 1)

\* the for loop of dfs with the test against visited replaced by a limit on
\* the length of the chain
DfsLoop_LengthLimit(b, current_pos, path, vis, depth, i) ==
    IF i > Len(red_directions) THEN [calls |-> <<>>, visited |-> vis]
    ELSE LET direction == red_directions[i]
             jump_over_pos == CoordAdd(current_pos, direction)
             landing_pos == CoordAdd(jump_over_pos, direction)
         IN  IF ~CellIs(b, jump_over_pos, "BLUE")
             THEN DfsLoop(b, current_pos, path, vis, depth, i + 1)
             ELSE IF /\ valid_coordinate(jump_over_pos, direction)
                     /\ CellIs(b, landing_pos, "LILY_PAD")
                     /\ Len(path) < Len(red_directions)
                  THEN LET new_path == Append(path, direction)
                           sub == dfs(b, landing_pos, new_path,
                                      vis \cup {landing_pos}, depth + 1)
                           after == sub.visited \ {landing_pos}
                           more == DfsLoop(b, current_pos, path, after, depth, i + 1)
                       IN  [calls |-> sub.calls \o more.calls, visited |-> more.visited]
                  ELSE DfsLoop(b, current_pos, path, vis, depth, i + 1)

\* the for loop of dfs without visited.remove after the recursive call
DfsLoop_NoRemove(b, current_pos, path, vis, depth, i) ==
    IF i > Len(red_directions) THEN [calls |-> <<>>, visited |-> vis]
    ELSE LET direction == red_directions[i]
             jump_over_pos == CoordAdd(current_pos, direction)
             landing_pos == CoordAdd(jump_over_pos, direction)
         IN  IF ~CellIs(b, jump_over_pos, "BLUE")
             THEN DfsLoop(b, current_pos, path, vis, depth, i + 1)
             ELSE IF /\ valid_coordinate(jump_over_pos, direction)
                     /\ CellIs(b, landing_pos, "LILY_PAD")
                     /\ landing_pos \notin vis
                  THEN LET new_path == Append(path, direction)
                           sub == dfs(b, landing_pos, new_path,
                                      vis \cup {landing_pos}, depth + 1)
                           after == sub.visited
                           more == DfsLoop(b, current_pos, path, after, depth, i + 1)
                       IN  [calls |-> sub.calls \o more.calls, visited |-> more.visited]
                  ELSE DfsLoop(b, current_pos, path, vis, depth, i + 1)

\* the for loop of dfs where the cell of the red frog counts as a landing cell too
DfsLoop_LandOnRed(b, current_pos, path, vis, depth, i) ==
    IF i > Len(red_directions) THEN [calls |-> <<>>, visited |-> vis]
    ELSE LET direction == red_directions[i]
             jump_over_pos == CoordAdd(current_pos, direction)
             landing_pos == CoordAdd(jump_over_pos, direction)
         IN  IF ~CellIs(b, jump_over_pos, "BLUE")
             THEN DfsLoop(b, current_pos, path, vis, depth, i + 1)
             ELSE IF /\ valid_coordinate(jump_over_pos, direction)
                     /\ (CellIs(b, landing_pos, "LILY_PAD") \/ CellIs(b, landing_pos, "RED"))
                     /\ landing_pos \notin vis
                  THEN LET new_path == Append(path, direction)
                           sub == dfs(b, landing_pos, new_path,
                                      vis \cup {landing_pos}, depth + 1)
                           after == sub.visited \ {landing_pos}
                           more == DfsLoop(b, current_pos, path, after, depth, i + 1)
                       IN  [calls |-> sub.calls \o more.calls, visited |-> more.visited]
                  ELSE DfsLoop(b, current_pos, path, vis, depth, i + 1)

\* the for loop of dfs from its i-th direction on
DfsLoop(b, current_pos, path, vis, depth, i) ==
    IF i > Len(red_directions) THEN [calls |-> <<>>, visited |-> vis]
    ELSE LET direction == red_directions[i]
             jump_over_pos == CoordAdd(current_pos, direction)
             landing_pos == CoordAdd(jump_over_pos, direction)
         IN  IF ~CellIs(b, jump_over_pos, "BLUE")
             THEN DfsLoop(b, current_pos, path, vis, depth, i + 1)
             ELSE IF /\ valid_coordinate(jump_over_pos, direction)
                     /\ CellIs(b, landing_pos, "LILY_PAD")
                     /\ landing_pos \notin vis
                  THEN LET new_path == Append(path, direction)
                           sub == dfs(b, landing_pos, new_path,
                                      vis \cup {landing_pos}, depth + 1)
                           after == sub.visited \ {landing_pos}
                           more == DfsLoop(b, current_pos, path, after, depth, i + 1)
                       IN  [calls |-> sub.calls \o more.calls, visited |-> more.visited]
                  ELSE DfsLoop(b, current_pos, path, vis, depth, i + 1)

\* only the chains that dfs could not extend are recorded
RECURSIVE RecordedPaths_MaximalOnly(_, _)
RecordedPaths_MaximalOnly(calls, i) ==
    IF i > Len(calls) THEN <<>>
    ELSE (IF /\ calls[i].path # <<>>
             /\ ~(i < Len(calls) /\ calls[i + 1].depth > calls[i].depth)
          THEN <<calls[i].path>> ELSE <<>>)
         \o RecordedPaths_MaximalOnly(calls, i + 1)

\* every chain is recorded when its invocation begins and again when it ends
RECURSIVE RecordedPaths_EntryAndExit(_, _)
RecordedPaths_EntryAndExit(calls, i) ==
    IF i > Len(calls) THEN <<>>
    ELSE (IF calls[i].path # <<>> THEN <<calls[i].path, calls[i].path>> ELSE <<>>)
         \o RecordedPaths_EntryAndExit(calls, i + 1)

\* the paths appended to possible_moves by the invocations, in order
RECURSIVE RecordedPaths(_, _)
RecordedPaths(calls, i) ==
    IF i > Len(calls) THEN <<>>
    ELSE (IF calls[i].path # <<>> THEN <<calls[i].path>> ELSE <<>>)
         \o RecordedPaths(calls, i + 1)

get_red_frog_moves(b, frog_pos) ==
    PlainMoves(b, frog_pos, 1) \o RecordedPaths(dfs(b, frog_pos, <<>>, {}, 0).calls, 1)

----------------------------------------------------------------------------
(* search *)

heuristic(pos) == 7 - pos[1]

\* tuple comparison of two heap entries (f, g, coord, path); two entries of
\* the heap never hold the same coordinate, so path is never compared
EntryLess(a, b) ==
    \/ a.f < b.f
    \/ a.f = b.f /\ a.g < b.g
    \/ a.f = b.f /\ a.g = b.g /\ CoordLess(a.coord, b.coord)

\* heapq.heappop: the smallest entry
HeapMin(heap) == CHOOSE e \in heap : \A o \in heap \ {e} : EntryLess(e, o)

\* the jump loop of lines 110-112 from the i-th direction on
RECURSIVE JumpDestination(_, _, _)
JumpDestination(new_coord, move, i) ==
    IF i > Len(move) THEN new_coord
    ELSE LET jumped_pos == CoordAdd(new_coord, move[i])
         IN  JumpDestination(CoordAdd(jumped_pos, move[i]), move, i + 1)

\* new_coord of lines 106-112
Destination(coord, move) ==
    IF Len(move) = 1 THEN CoordAdd(coord, move[1])
    ELSE JumpDestination(coord, move, 1)

\* the for loop of lines 105-118 stopping one move early
RECURSIVE ExpandMoves_SkipLast(_, _, _, _, _, _)
ExpandMoves_SkipLast(moves, i, coord, g, path_actions, st) ==
    IF i >= Len(moves) THEN st
    ELSE LET move == moves[i]
             new_coord == Destination(coord, move)
         IN  IF new_coord \notin st.visited
             THEN LET new_action == MoveAction(coord, move)
                      new_path == Append(path_actions, new_action)
                      entry == [f |-> g + 1 + heuristic(new_coord), g |-> g + 1,
                                coord |-> new_coord, path |-> new_path]
                  IN  ExpandMoves_SkipLast(moves, i + 1, coord, g, path_actions,
                                           [visited |-> st.visited \cup {new_coord},
                                            open |-> st.open \cup {entry},
                                            pushed |-> Append(st.pushed, new_coord)])
             ELSE ExpandMoves_SkipLast(moves, i + 1, coord, g, path_actions, st)

\* the for loop of lines 105-118 with new_path = [new_action]: the path so far is lost
RECURSIVE ExpandMoves_DropPath(_, _, _, _, _, _)
ExpandMoves_DropPath(moves, i, coord, g, path_actions, st) ==
    IF i > Len(moves) THEN st
    ELSE LET move == moves[i]
             new_coord == Destination(coord, move)
         IN  IF new_coord \notin st.visited
             THEN LET new_action == MoveAction(coord, move)
                      new_path == <<new_action>>
                      entry == [f |-> g + 1 + heuristic(new_coord), g |-> g + 1,
                                coord |-> new_coord, path |-> new_path]
                  IN  ExpandMoves_DropPath(moves, i + 1, coord, g, path_actions,
                                           [visited |-> st.visited \cup {new_coord},
                                            open |-> st.open \cup {entry},
                                            pushed |-> Append(st.pushed, new_coord)])
             ELSE ExpandMoves_DropPath(moves, i + 1, coord, g, path_actions, st)

\* the for loop of lines 105-118 without visited.add: a destination is pushed
\* but not marked
RECURSIVE ExpandMoves_NoMark(_, _, _, _, _, _)
ExpandMoves_NoMark(moves, i, coord, g, path_actions, st) ==
    IF i > Len(moves) THEN st
    ELSE LET move == moves[i]
             new_coord == Destination(coord, move)
         IN  IF new_coord \notin st.visited
             THEN LET new_action == MoveAction(coord, move)
                      new_path == Append(path_actions, new_action)
                      entry == [f |-> g + 1 + heuristic(new_coord), g |-> g + 1,
                                coord |-> new_coord, path |-> new_path]
                  IN  ExpandMoves_NoMark(moves, i + 1, coord, g, path_actions,
                                         [visited |-> st.visited,
                                          open |-> st.open \cup {entry},
                                          pushed |-> Append(st.pushed, new_coord)])
             ELSE ExpandMoves_NoMark(moves, i + 1, coord, g, path_actions, st)

\* the for loop of lines 105-118 from the i-th move on; st = [visited, open,
\* pushed]: the visited set, the heap and the coordinates pushed so far
RECURSIVE ExpandMoves(_, _, _, _, _, _)
ExpandMoves(moves, i, coord, g, path_actions, st) ==
    IF i > Len(moves) THEN st
    ELSE LET move == moves[i]
             new_coord == Destination(coord, move)
         IN  IF new_coord \notin st.visited
             THEN LET new_action == MoveAction(coord, move)
                      new_path == Append(path_actions, new_action)
                      entry == [f |-> g + 1 + heuristic(new_coord), g |-> g + 1,
                                coord |-> new_coord, path |-> new_path]
                  IN  ExpandMoves(moves, i + 1, coord, g, path_actions,
                                  [visited |-> st.visited \cup {new_coord},
                                   open |-> st.open \cup {entry},
                                   pushed |-> Append(st.pushed, new_coord)])
             ELSE ExpandMoves(moves, i + 1, coord, g, path_actions, st)

\* the scan of lines 71-78: start_coord (the boards checked hold at most one
\* red frog, so the order of the scan does not matter)
RedCells(b) == {p \in DOMAIN b : b[p] = "RED"}

ScanStart(b) == IF RedCells(b) = {} THEN NoCoord ELSE CHOOSE p \in RedCells(b) : TRUE

\* the scan without the test for the bottom row
ScanTargets_AnyRow(b) == {p \in DOMAIN b : b[p] = "LILY_PAD"}

\* the scan of lines 71-78: target_pads
ScanTargets(b) == {p \in DOMAIN b : b[p] = "LILY_PAD" /\ p[1] = 7}

\* lines 71-81: the scan finds no red frog or no goal: return None
SetupFail ==
    /\ pc = "Initialized"
    /\ ScanStart(board) = NoCoord \/ ScanTargets(board) = {}
    /\ start_coord' = ScanStart(board)
    /\ target_pads' = ScanTargets(board)
    /\ pc' = "Failed"
    /\ returned' = "None"
    /\ UNCHANGED <<board, open_created, open_list, visited, pushes, current_coord,
                   possible_moves, gen_origin, plain_count, dfs_calls, dfs_visited,
                   gen_calls, result>>

\* lines 71-93: the scan succeeds; the start is pushed and marked visited
SetupOk ==
    /\ pc = "Initialized"
    /\ ScanStart(board) # NoCoord /\ ScanTargets(board) # {}
    /\ start_coord' = ScanStart(board)
    /\ target_pads' = ScanTargets(board)
    /\ open_created' = TRUE
    /\ open_list' = {[f |-> heuristic(ScanStart(board)), g |-> 0,
                      coord |-> ScanStart(board), path |-> <<>>]}
    /\ visited' = {ScanStart(board)}
    /\ pushes' = <<ScanStart(board)>>
    /\ pc' = "Expanding"
    /\ UNCHANGED <<board, current_coord, possible_moves, gen_origin, plain_count,
                   dfs_calls, dfs_visited, gen_calls, returned, result>>

\* lines 95-100: the popped entry is a goal: return its path
PopGoal ==
    /\ pc = "Expanding"
    /\ open_list # {}
    /\ \E e \in {HeapMin(open_list)} :
           /\ e.coord \in target_pads
           /\ open_list' = open_list \ {e}
           /\ current_coord' = e.coord
           /\ result' = e.path
    /\ returned' = "path"
    /\ pc' = "Succeeded"
    /\ UNCHANGED <<board, start_coord, target_pads, open_created, visited, pushes,
                   possible_moves, gen_origin, plain_count, dfs_calls, dfs_visited,
                   gen_calls>>

\* lines 95-118: the popped entry is no goal: expand it.  Every coordinate
\* pushed is a key of the dict and is pushed once, so a run makes at most one
\* expansion per key; the guard on gen_calls states that cap and never
\* disables an expansion of the program.
Expand ==
    /\ pc = "Expanding"
    /\ open_list # {}
    /\ gen_calls < Cardinality(DOMAIN board)
    /\ \E e \in {HeapMin(open_list)} :
           /\ e.coord \notin target_pads
           /\ current_coord' = e.coord
           /\ gen_origin' = e.coord
           /\ plain_count' = Len(PlainMoves(board, e.coord, 1))
           /\ \E run \in {dfs(board, e.coord, <<>>, {}, 0)} :
                  /\ dfs_calls' = run.calls
                  /\ dfs_visited' = run.visited
           /\ \E moves \in {get_red_frog_moves(board, e.coord)} :
                  /\ possible_moves' = moves
                  /\ \E st \in {ExpandMoves(moves, 1, e.coord, e.g, e.path,
                                            [visited |-> visited, open |-> open_list \ {e},
                                             pushed |-> pushes])} :
                         /\ visited' = st.visited
                         /\ open_list' = st.open
                         /\ pushes' = st.pushed
    /\ gen_calls' = gen_calls + 1
    /\ UNCHANGED <<board, pc, start_coord, target_pads, open_created, returned, result>>

\* lines 95, 120: the heap is empty: return None
Exhaust ==
    /\ pc = "Expanding"
    /\ open_list = {}
    /\ pc' = "Exhausted"
    /\ returned' = "None"
    /\ UNCHANGED <<board, start_coord, target_pads, open_created, open_list, visited,
                   pushes, current_coord, possible_moves, gen_origin, plain_count,
                   dfs_calls, dfs_visited, gen_calls, result>>

----------------------------------------------------------------------------
(* The boards checked *)

\* the three leftmost columns of the NumRows bottom rows
Region == {<<r, c>> : r \in (LastIndex - NumRows + 1)..LastIndex, c \in {0, 1, 2}}

\* the boards on the cells D: at most one red frog, the rest blue frogs and lily pads
BoardsOn(D) == {b \in [D -> CellState] : Cardinality({p \in D : b[p] = "RED"}) <= 1}

Boards ==
    UNION {BoardsOn(D) : D \in {S \in SUBSET Region : Cardinality(S) <= MaxPieces + 1}}

InputBoards == {b \in Boards : Cardinality({p \in DOMAIN b : b[p] # "RED"}) <= MaxPieces}

Init ==
    /\ board \in InputBoards
    /\ pc = "Initialized"
    /\ start_coord = NoCoord
    /\ target_pads = {}
    /\ open_created = FALSE
    /\ open_list = {}
    /\ visited = {}
    /\ current_coord = NoCoord
    /\ possible_moves = <<>>
    /\ gen_origin = NoCoord
    /\ plain_count = 0
    /\ dfs_calls = <<>>
    /\ dfs_visited = {}
    /\ pushes = <<>>
    /\ gen_calls = 0
    /\ returned = "no"
    /\ result = <<>>

Next == SetupFail \/ SetupOk \/ PopGoal \/ Expand \/ Exhaust

Spec == Init /\ [][Next]_vars

\* search is one sequential call: it always takes its next step
FairSpec == Spec /\ WF_vars(Next)

----------------------------------------------------------------------------
(* The move rules, stated on their own: what a legal move is, where it     *)
(* lands, and the least number of legal moves to the bottom row.           *)

PermittedDirs == {"Down", "DownLeft", "DownRight", "Left", "Right"}

InBounds(p) == p[1] \in 0..LastIndex /\ p[2] \in 0..LastIndex

\* two cells on from p in direction d
TwoOn(p, d) == <<p[1] + 2 * DirR(d), p[2] + 2 * DirC(d)>>

\* a plain step from p in direction d is legal
IsStep(b, p, d) ==
    /\ d \in PermittedDirs
    /\ InBounds(CoordAdd(p, d))
    /\ CellIs(b, CoordAdd(p, d), "LILY_PAD")

\* a single jump from p in direction d is legal
IsJump(b, p, d) ==
    /\ d \in PermittedDirs
    /\ CellIs(b, CoordAdd(p, d), "BLUE")
    /\ InBounds(TwoOn(p, d))
    /\ CellIs(b, TwoOn(p, d), "LILY_PAD")

\* where the frog stands after the first i jumps of chain from p
RECURSIVE LandingAt(_, _, _)
LandingAt(p, chain, i) ==
    IF i = 0 THEN p ELSE TwoOn(LandingAt(p, chain, i - 1), chain[i])

\* chain is a legal jump-chain from p
LegalChain(b, p, chain) ==
    /\ Len(chain) >= 1
    /\ \A i \in 1..Len(chain) : IsJump(b, LandingAt(p, chain, i - 1), chain[i])
    /\ \A i, j \in 1..Len(chain) :
           i < j => LandingAt(p, chain, i) # LandingAt(p, chain, j)

LilyPads(b) == {p \in DOMAIN b : b[p] = "LILY_PAD"}

\* the legal jump-chains from p, grown one jump at a time: level holds the
\* legal chains of the current length, acc those found so far.  Landings of
\* a chain are distinct lily pads, so the levels run empty.
RECURSIVE GrowChains(_, _, _, _)
GrowChains(b, p, level, acc) ==
    IF level = {} THEN acc
    ELSE LET next == {c \in {Append(pre, d) : pre \in level, d \in PermittedDirs} :
                          LegalChain(b, p, c)}
         IN  GrowChains(b, p, next, acc \cup next)

LegalChains(b, p) == GrowChains(b, p, {<<>>}, {})

LegalSteps(b, p) == {<<d>> : d \in {x \in PermittedDirs : IsStep(b, p, x)}}

LegalMoves(b, p) == LegalSteps(b, p) \cup LegalChains(b, p)

\* where a move lands when replayed from origin under the rules, NoCoord if illegal
RuleLanding(b, origin, move) ==
    IF Len(move) = 1 /\ IsStep(b, origin, move[1]) THEN CoordAdd(origin, move[1])
    ELSE IF LegalChain(b, origin, move) THEN LandingAt(origin, move, Len(move))
    ELSE NoCoord

\* the coordinates one legal move away from p
LegalDest(b, p) == {RuleLanding(b, p, m) : m \in LegalMoves(b, p)}

RowSevenPads(b) == {p \in LilyPads(b) : p[1] = GoalRow}

HasRed(b) == \E p \in DOMAIN b : b[p] = "RED"

RedCoord(b) == CHOOSE p \in DOMAIN b : b[p] = "RED"

\* breadth-first search over the legal move graph: the number of levels
\* until a row-7 lily pad is met, -1 if none is reachable
RECURSIVE Bfs(_, _, _, _)
Bfs(b, level, seen, n) ==
    IF level \cap RowSevenPads(b) # {} THEN n
    ELSE IF level = {} THEN -1
    ELSE LET next == UNION {LegalDest(b, p) : p \in level} \ seen
         IN  Bfs(b, next, seen \cup next, n + 1)

\* the least number of legal moves from p to a row-7 lily pad, -1 if there is none
MinMovesFrom(b, p) == Bfs(b, {p}, {p}, 0)

MinMoves(b) == MinMovesFrom(b, RedCoord(b))

Finished == returned # "no"

----------------------------------------------------------------------------
(* Claims *)

C1Board == (<<5, 0>> :> "RED") @@ (<<6, 0>> :> "BLUE") @@ (<<7, 0>> :> "LILY_PAD")

\* C1: on the board Red (5,0), Blue (6,0), LilyPad (7,0), search returns
\* exactly one MoveAction: origin (5,0) with the jump-chain [Down].
C1_SingleJumpSolution ==
    (board = C1Board /\ Finished) =>
        (returned = "path" /\ result = <<MoveAction(<<5, 0>>, <<"Down">>)>>)

\* C2: when a row-7 lily pad is reachable from the red frog by legal moves,
\* the returned sequence is as short as the shortest legal move sequence.
C2_MinimalLength ==
    (Finished /\ HasRed(board) /\ MinMoves(board) >= 0) =>
        (returned = "path" /\ Len(result) = MinMoves(board))

\* C3: when a row-7 lily pad is reachable from the red frog by legal moves,
\* search returns a non-empty list whose last MoveAction lands on a row-7
\* lily pad.
C3_ReachableIsSolved ==
    (Finished /\ HasRed(board) /\ MinMoves(board) >= 0) =>
        /\ returned = "path"
        /\ Len(result) >= 1
        /\ LET last == result[Len(result)]
           IN  RuleLanding(board, last.coord, last.directions) \in RowSevenPads(board)

C3_Witness == returned = "path" /\ Len(result) >= 2 /\ MinMoves(board) >= 2

\* C4: on a board with a red frog and a row-7 lily pad where no sequence of
\* legal moves reaches a row-7 lily pad, search returns None.
C4_UnreachableIsNone ==
    (Finished /\ HasRed(board) /\ RowSevenPads(board) # {} /\ MinMoves(board) = -1) =>
        returned = "None"

\* C5: on a board with no red frog or no row-7 lily pad, search returns None
\* at once: no frontier is created and the move generator is never called.
C5_PreconditionFailure ==
    (pc # "Initialized" /\ (~HasRed(board) \/ RowSevenPads(board) = {})) =>
        /\ pc = "Failed"
        /\ returned = "None"
        /\ ~open_created /\ open_list = {}
        /\ gen_calls = 0

C5_Witness ==
    pc = "Failed" /\ HasRed(board) /\ LilyPads(board) # {} /\ RowSevenPads(board) = {}

\* the MoveActions of path form a legal path that begins at start
PathLegal(b, start, path) ==
    /\ Len(path) >= 1 => path[1].coord = start
    /\ \A i \in 1..Len(path) : RuleLanding(b, path[i].coord, path[i].directions) # NoCoord
    /\ \A i \in 1..(Len(path) - 1) :
           path[i + 1].coord = RuleLanding(b, path[i].coord, path[i].directions)

\* C6: every returned solution is a legal path: it begins at the red frog,
\* each move is legal from its origin, and each later origin is where the
\* previous move lands.
C6_SolutionIsLegalPath ==
    returned = "path" => PathLegal(board, RedCoord(board), result)

\* the entries of a list as a set
Range(seq) == {seq[i] : i \in 1..Len(seq)}

\* the positions of possible_moves that dfs appended
ChainPart == (plain_count + 1)..Len(possible_moves)

\* C7: get_red_frog_moves returns exactly the legal moves from its origin:
\* every legal plain step and every legal jump-chain, and nothing else.
C7_ExactlyLegalMoves ==
    gen_calls > 0 => Range(possible_moves) = LegalMoves(board, gen_origin)

C7_Witness ==
    /\ gen_calls > 0
    /\ plain_count >= 1
    /\ \E i \in ChainPart : Len(possible_moves[i]) >= 2

\* C8: in every jump-chain returned, each hop-over cell is Blue, each landing
\* is an in-bounds LilyPad, and no landing occurs twice.
C8_ChainsAreLegal ==
    gen_calls > 0 =>
        \A i \in ChainPart : LegalChain(board, gen_origin, possible_moves[i])

C8_Witness ==
    /\ gen_calls > 0
    /\ CellIs(board, gen_origin, "LILY_PAD")
    /\ \E i \in ChainPart : Len(possible_moves[i]) >= 2

\* C9: every plain step returned is a one-element move in a permitted
\* direction that lands inside the board on a LilyPad.
C9_PlainStepsAreLegal ==
    gen_calls > 0 =>
        \A i \in 1..plain_count :
            /\ Len(possible_moves[i]) = 1
            /\ IsStep(board, gen_origin, possible_moves[i][1])

C9_Witness == gen_calls > 0 /\ plain_count >= 2

\* C10: the jump-chains returned are prefix-closed: with a chain of k >= 2
\* jumps, each of its non-empty proper prefixes is a separate entry.
C10_PrefixClosed ==
    gen_calls > 0 =>
        \A i \in ChainPart :
            \A k \in 1..(Len(possible_moves[i]) - 1) :
                \E j \in ChainPart \ {i} :
                    possible_moves[j] = SubSeq(possible_moves[i], 1, k)

C10_Witness ==
    /\ gen_calls > 0
    /\ CellIs(board, gen_origin, "RED")
    /\ \E i \in ChainPart : Len(possible_moves[i]) = 2

\* C11: the list returned by get_red_frog_moves holds no direction list twice.
C11_NoDuplicateMoves ==
    gen_calls > 0 =>
        \A i, j \in 1..Len(possible_moves) :
            i # j => possible_moves[i] # possible_moves[j]

C11_Witness ==
    /\ gen_calls > 0
    /\ plain_count >= 1
    /\ Len(possible_moves) >= plain_count + 2

\* the cells the frog can stand on: the red frog's cell and the lily pads
Standable(b) == {p \in DOMAIN b : b[p] \in {"RED", "LILY_PAD"}}

\* C12: the heuristic is admissible: from a coordinate that can reach a row-7
\* lily pad, h is at most the least number of legal moves to one.
C12_HeuristicAdmissible ==
    \A e \in open_list :
        (e.coord \in Standable(board) /\ MinMovesFrom(board, e.coord) >= 0) =>
            e.f - e.g <= MinMovesFrom(board, e.coord)

C13Board == (<<5, 0>> :> "RED") @@ (<<6, 0>> :> "LILY_PAD") @@ (<<7, 0>> :> "LILY_PAD")

\* C13: on the board Red (5,0), LilyPad (6,0), LilyPad (7,0), search returns
\* the two plain steps [Down] from (5,0) and [Down] from (6,0).
C13_TwoStepSolution ==
    (board = C13Board /\ Finished) =>
        /\ returned = "path"
        /\ result = <<MoveAction(<<5, 0>>, <<"Down">>), MoveAction(<<6, 0>>, <<"Down">>)>>

C13_Witness == board = C13Board /\ pc = "Succeeded" /\ gen_calls = 2

\* C14: the destination search computes for a move is the move's final
\* landing: the neighbour for a plain step, two cells on per direction for a
\* jump-chain of any length, one jump included.
C14_DestinationIsLanding ==
    \A e \in open_list :
        e.path # <<>> =>
            LET last == e.path[Len(e.path)]
            IN  e.coord = RuleLanding(board, last.coord, last.directions)

\* C15: every coordinate in the frontier, and every origin given to the move
\* generator, is the red frog's start or a LilyPad of the board.
C15_MoverOnStartOrLilyPad ==
    /\ \A e \in open_list :
           e.coord = start_coord \/ CellIs(board, e.coord, "LILY_PAD")
    /\ gen_calls > 0 =>
           gen_origin = start_coord \/ CellIs(board, gen_origin, "LILY_PAD")

\* C16: a destination is marked visited when it is pushed: every frontier
\* entry's coordinate is in the visited set, and no coordinate is pushed twice
\* in a run.
C16_VisitedOnDiscovery ==
    /\ \A e \in open_list : e.coord \in visited
    /\ \A i, j \in 1..Len(pushes) : i # j => pushes[i] # pushes[j]
    /\ Range(pushes) = visited

\* a move of the last expansion led to a coordinate that was already visited
C16_Witness ==
    /\ gen_calls >= 2
    /\ Len(pushes) >= 3
    /\ \E i \in 1..Len(possible_moves) :
           \A e \in open_list :
               e.path = <<>> \/ e.path[Len(e.path)] # MoveAction(gen_origin, possible_moves[i])

Terminal == {"Succeeded", "Exhausted"}

\* Twice the number of coordinates not yet discovered plus the frontier size:
\* an expansion removes one entry and pays two for every entry it adds.
Unfinished == 2 * Cardinality((DOMAIN board) \ visited) + Cardinality(open_list)

\* C17: search terminates: every run returns; while Expanding a step is always
\* possible and each one either ends the search or lowers Unfinished, which
\* is never negative; the search ends Succeeded with a goal popped or
\* Exhausted with the frontier empty, and after either nothing changes.
C17_Terminates ==
    /\ <>(returned # "no")
    /\ [](pc = "Expanding" => ENABLED Next)
    /\ [][(pc = "Expanding") => (pc' \in Terminal \/ Unfinished' < Unfinished)]_vars
    /\ [](pc = "Succeeded" => (returned = "path" /\ current_coord \in target_pads))
    /\ [](pc = "Exhausted" => (returned = "None" /\ open_list = {}))
    /\ [][(pc \in Terminal) => (vars' = vars)]_vars

C17_Witness == pc = "Exhausted" /\ gen_calls >= 2 /\ Len(pushes) >= 3

\* the landing coordinates of chain from p
OwnLandings(p, chain) == {LandingAt(p, chain, k) : k \in 1..Len(chain)}

\* C18: one call of get_red_frog_moves terminates, also where Blue pieces and
\* LilyPads form a cycle of jumps: its invocations of dfs are finitely many
\* and none is nested deeper than the number of LilyPad cells of the board.
C18_GeneratorTerminates ==
    gen_calls > 0 =>
        /\ Len(dfs_calls) >= 1
        /\ \A i \in 1..Len(dfs_calls) :
               /\ dfs_calls[i].depth = Len(dfs_calls[i].path)
               /\ dfs_calls[i].depth <= Cardinality(LilyPads(board))

\* a chain came back to its origin and the jump it began with was refused
C18_Witness ==
    /\ gen_calls > 0
    /\ \E i \in 1..Len(dfs_calls) :
           /\ dfs_calls[i].depth >= 2
           /\ dfs_calls[i].pos = gen_origin
           /\ \E d \in PermittedDirs :
                  /\ IsJump(board, dfs_calls[i].pos, d)
                  /\ TwoOn(dfs_calls[i].pos, d) \in dfs_calls[i].visited

MoveLandings(i) ==
    IF i <= plain_count THEN {CoordAdd(gen_origin, possible_moves[i][1])}
    ELSE OwnLandings(gen_origin, possible_moves[i])

\* C20 as stated: no move returned by get_red_frog_moves lands on the origin,
\* neither at its end nor in between, whatever cell the origin is.
C20_NeverLandsOnOrigin ==
    gen_calls > 0 =>
        \A i \in 1..Len(possible_moves) : gen_origin \notin MoveLandings(i)

\* C20: no plain step returned lands on the origin, and no jump-chain lands on
\* the origin unless the origin cell is itself a LilyPad; then only a chain
\* of two or more jumps does, and only once.
C20_LandsOnOriginOnlyIfLilyPad ==
    gen_calls > 0 =>
        /\ \A i \in 1..plain_count : gen_origin \notin MoveLandings(i)
        /\ \A i \in ChainPart :
               /\ gen_origin \in MoveLandings(i) =>
                      /\ CellIs(board, gen_origin, "LILY_PAD")
                      /\ Len(possible_moves[i]) >= 2
               /\ Cardinality({k \in 1..Len(possible_moves[i]) :
                      LandingAt(gen_origin, possible_moves[i], k) = gen_origin}) <= 1

\* a returned chain ends on the LilyPad it started from
C20_Witness ==
    /\ gen_calls > 0
    /\ CellIs(board, gen_origin, "LILY_PAD")
    /\ \E i \in ChainPart :
           LandingAt(gen_origin, possible_moves[i], Len(possible_moves[i])) = gen_origin

====
